---- MODULE Spec2Model ----
(***************************************************************************)
(* Model of the scoring engine of performance_analysis.py: the event       *)
(* classifier, the two windowed aggregators, the index calculators and the *)
(* timeline driver compute_performance_for_panel.                          *)
(*                                                                         *)
(* Representation of Python values                                         *)
(*   - a dict field is a tagged value [tag, n, s]: tag "int" carries the   *)
(*     integer n, tag "str" carries the string s as a tuple of one-letter  *)
(*     strings, tag "none" is None, tag "absent" is a missing key;         *)
(*   - a raised exception is the field exc of an operator's result         *)
(*     ("" when the call returns);                                         *)
(*   - floats are exact rationals with a fixed denominator per quantity:   *)
(*     sub-indicators (F_s .. M_t) in 1/Unit, ssi and tbi in 1/(20*Unit),  *)
(*     performance_raw in 1/(1000*Unit). Only math.exp is approximated     *)
(*     (truncated Taylor series on a 1/ExpScale grid);                     *)
(*   - panel_metadata, a projection of dpp that no score depends on, and   *)
(*     the event field ok, which the engine never reads, are left out.     *)
(***************************************************************************)
EXTENDS Integers, Sequences, FiniteSets, TLC

VARIABLES events, pc, sorted_events, i, now_ts, events_up_to,
          struct_comp, thermal_comp, points, system_events, exc,
          arg, ret

vars == <<events, pc, sorted_events, i, now_ts, events_up_to,
          struct_comp, thermal_comp, points, system_events, exc, arg, ret>>

-----------------------------------------------------------------------------
(* Program constants *)

SECONDS_IN_HOUR == 3600
WINDOW_HOURS == 24
STRUCT_FAULTS_MAX_PER_DAY == 5
THERMAL_EVENTS_MAX_PER_DAY == 5

(* Denominators of the exact rational representation. *)
Unit == 864 * 35
SsiUnit == 20 * Unit
RawUnit == 1000 * Unit
ExpScale == 100 * 100

-----------------------------------------------------------------------------
(* Python values *)

Absent == [tag |-> "absent", n |-> 0, s |-> <<>>]
None == [tag |-> "none", n |-> 0, s |-> <<>>]
IntV(k) == [tag |-> "int", n |-> k, s |-> <<>>]
StrV(cs) == [tag |-> "str", n |-> 0, s |-> cs]

\* dict.get(key, default)
Get(evt, key, default) == IF evt[key].tag = "absent" THEN default ELSE evt[key]

\* (v or ""), as the receiver of .lower() / .upper(): None, "" and 0 are
\* falsy and give ""; a string gives itself; a non-zero int has no such
\* method (AttributeError).
StrOrEmpty(v) ==
    CASE v.tag = "str" -> [exc |-> "", s |-> v.s]
      [] v.tag = "int" /\ v.n # 0 -> [exc |-> "AttributeError", s |-> <<>>]
      [] OTHER -> [exc |-> "", s |-> <<>>]

Digits == <<"0", "1", "2", "3", "4", "5", "6", "7", "8", "9">>

IsDigit(c) == \E d \in 1..10 : Digits[d] = c

DigitVal(c) == (CHOOSE d \in 1..10 : Digits[d] = c) - 1

RECURSIVE DecVal(_)
DecVal(cs) ==
    IF cs = <<>> THEN 0
    ELSE 10 * DecVal(SubSeq(cs, 1, Len(cs) - 1)) + DigitVal(cs[Len(cs)])

IsDecimal(cs) == cs # <<>> /\ \A k \in 1..Len(cs) : IsDigit(cs[k])

\* int(v): an int is itself, a string is parsed as an optionally signed
\* decimal (ValueError otherwise), None is a TypeError.
PyInt(v) ==
    CASE v.tag = "int" -> [exc |-> "", n |-> v.n]
      [] v.tag = "str" ->
            IF IsDecimal(v.s) THEN [exc |-> "", n |-> DecVal(v.s)]
            ELSE IF Len(v.s) > 1 /\ v.s[1] = "-" /\ IsDecimal(Tail(v.s))
                 THEN [exc |-> "", n |-> 0 - DecVal(Tail(v.s))]
            ELSE IF Len(v.s) > 1 /\ v.s[1] = "+" /\ IsDecimal(Tail(v.s))
                 THEN [exc |-> "", n |-> DecVal(Tail(v.s))]
            ELSE [exc |-> "ValueError", n |-> 0]
      [] OTHER -> [exc |-> "TypeError", n |-> 0]

UpperCase == <<"A", "B", "C", "D", "E", "F", "G", "H", "I", "J", "K", "L", "M",
               "N", "O", "P", "Q", "R", "S", "T", "U", "V", "W", "X", "Y", "Z">>
LowerCase == <<"a", "b", "c", "d", "e", "f", "g", "h", "i", "j", "k", "l", "m",
               "n", "o", "p", "q", "r", "s", "t", "u", "v", "w", "x", "y", "z">>

LowerChar(c) ==
    IF \E k \in 1..26 : UpperCase[k] = c
    THEN LowerCase[CHOOSE k \in 1..26 : UpperCase[k] = c] ELSE c

UpperChar(c) ==
    IF \E k \in 1..26 : LowerCase[k] = c
    THEN UpperCase[CHOOSE k \in 1..26 : LowerCase[k] = c] ELSE c

\* str.lower(), str.upper()
Lower(cs) == [k \in 1..Len(cs) |-> LowerChar(cs[k])]
Upper(cs) == [k \in 1..Len(cs) |-> UpperChar(cs[k])]

\* sub in cs
Contains(cs, sub) ==
    \E k \in 1..(Len(cs) - Len(sub) + 1) : SubSeq(cs, k, k + Len(sub) - 1) = sub

\* cs.startswith(pre)
StartsWith(cs, pre) == Len(cs) >= Len(pre) /\ SubSeq(cs, 1, Len(pre)) = pre

-----------------------------------------------------------------------------
(* Keywords *)

kwTilt == <<"t", "i", "l", "t">>
kwStructural == <<"s", "t", "r", "u", "c", "t", "u", "r", "a", "l">>
kwMovement == <<"m", "o", "v", "e", "m", "e", "n", "t">>
kwTemp == <<"t", "e", "m", "p">>
kwThermal == <<"t", "h", "e", "r", "m", "a", "l">>
kwSurface == <<"s", "u", "r", "f", "a", "c", "e">>
kwAmbient == <<"a", "m", "b", "i", "e", "n", "t">>
kwSevere == <<"s", "e", "v", "e", "r", "e">>
kwCritical == <<"c", "r", "i", "t", "i", "c", "a", "l">>
kwTooHigh == <<"t", "o", "o", " ", "h", "i", "g", "h">>
kwTooLow == <<"t", "o", "o", " ", "l", "o", "w">>
kwHigh == <<"h", "i", "g", "h">>
kwLow == <<"l", "o", "w">>
kwRED == <<"R", "E", "D">>
kwYELLOW == <<"Y", "E", "L", "L", "O", "W">>

-----------------------------------------------------------------------------
(* _classify_event *)

HasStructuralKeyword(reason) ==
    Contains(reason, kwTilt) \/ Contains(reason, kwStructural)
        \/ Contains(reason, kwMovement)

HasThermalKeyword(reason) ==
    Contains(reason, kwTemp) \/ Contains(reason, kwThermal)
        \/ Contains(reason, kwSurface) \/ Contains(reason, kwAmbient)

\* variant: the thermal keywords tried first
KindOfReasonThermalFirst(reason) ==
    IF HasThermalKeyword(reason) THEN "thermal"
    ELSE IF HasStructuralKeyword(reason) THEN "structural"
    ELSE "other"

KindOfReason(reason) ==
    IF HasStructuralKeyword(reason) THEN "structural"
    ELSE IF HasThermalKeyword(reason) THEN "thermal"
    ELSE "other"

Classification(prediction, reason) ==
    IF prediction.exc # "" THEN [exc |-> prediction.exc, domain |-> "", kind |-> ""]
    ELSE IF reason.exc # "" THEN [exc |-> reason.exc, domain |-> "", kind |-> ""]
    ELSE IF prediction.n = -1 THEN [exc |-> "", domain |-> "system", kind |-> "system"]
    ELSE [exc |-> "", domain |-> "facade", kind |-> KindOfReason(Lower(reason.s))]

\* prediction = int(evt.get("prediction", 0)); reason = (evt.get("reason") or "").lower()
ClassifyEvent(evt) ==
    Classification(PyInt(Get(evt, "prediction", IntV(0))),
                   StrOrEmpty(Get(evt, "reason", None)))

-----------------------------------------------------------------------------
(* The 24h window and the selection loops of the two aggregators *)

WindowStart(now) == now - WINDOW_HOURS * SECONDS_IN_HOUR

\* variant: the window start itself is outside
OutOfWindowOpenStart(ts, now) == ts <= WindowStart(now) \/ ts > now

\* the loops' "continue" test: ts < window_start or ts > now_ts
OutOfWindow(ts, now) == ts < WindowStart(now) \/ ts > now

\* the prediction values an aggregator keeps: 1 for structural faults,
\* 1 and 2 for thermal anomalies
KeepsPrediction(kind, pred) ==
    IF kind = "structural" THEN pred = 1 ELSE pred \in {1, 2}

TsOf(e) == PyInt(Get(e, "timestamp", IntV(0))).n

\* What one pass of a selection loop does with its event, from the values
\* the pass computes in order: raise, skip or append.
PassVerdict(now, kind, ts, c, pred) ==
    IF ts.exc # "" THEN [exc |-> ts.exc, keep |-> FALSE]
    ELSE IF OutOfWindow(ts.n, now) THEN [exc |-> "", keep |-> FALSE]
    ELSE IF c.exc # "" THEN [exc |-> c.exc, keep |-> FALSE]
    ELSE [exc |-> "",
          keep |-> c.domain = "facade" /\ c.kind = kind /\ KeepsPrediction(kind, pred.n)]

Verdict(now, kind, e) ==
    PassVerdict(now, kind, PyInt(Get(e, "timestamp", IntV(0))), ClassifyEvent(e),
                PyInt(Get(e, "prediction", IntV(0))))

\* the exception of the first element that raises, "" if none does
FirstExc(rs) ==
    IF \A k \in 1..Len(rs) : rs[k].exc = "" THEN ""
    ELSE rs[CHOOSE k \in 1..Len(rs) :
                rs[k].exc # "" /\ \A m \in 1..(k - 1) : rs[m].exc = ""].exc

\* The selection loop of an aggregator: the events of evs in the window, of
\* domain facade and of the given kind, whose prediction is kept.
Selected(evs, now, kind) ==
    [exc |-> FirstExc([k \in 1..Len(evs) |-> Verdict(now, kind, evs[k])]),
     sel |-> SelectSeq(evs, LAMBDA e : Verdict(now, kind, e).keep)]

RECURSIVE SumSeq(_)
SumSeq(xs) == IF xs = <<>> THEN 0 ELSE Head(xs) + SumSeq(Tail(xs))

Min(a, b) == IF a <= b THEN a ELSE b
Max(a, b) == IF a >= b THEN a ELSE b

\* max(xs), xs not empty
MaxSeq(xs) == CHOOSE x \in {xs[k] : k \in 1..Len(xs)} : \A k \in 1..Len(xs) : xs[k] <= x

\* sum(xs) / len(xs) if xs else 0.0, in 1/Unit
Mean(xs) == IF xs = <<>> THEN 0 ELSE (SumSeq(xs) * Unit) \div Len(xs)

\* variant: the frequency without its cap
FrequencyUncapped(n, per_day) == (100 * Unit * n) \div per_day

\* min(100.0, 100.0 * n / per_day), in 1/Unit
Frequency(n, per_day) == Min(100 * Unit, (100 * Unit * n) \div per_day)

\* math.exp(-num/den) on the 1/ExpScale grid, for 0 <= num <= den: the
\* alternating Taylor series, term k being term k-1 times num/(den*k).
RECURSIVE ExpTail(_, _, _, _)
ExpTail(num, den, k, t) ==
    IF t = 0 THEN 0
    ELSE t - ExpTail(num, den, k + 1, (t * num) \div (den * k))

ExpNeg(num, den) == ExpTail(num, den, 1, ExpScale)

-----------------------------------------------------------------------------
(* _compute_structural_components *)

SeverityOf(color, reason) ==
    IF color.exc # "" THEN [exc |-> color.exc, sev |-> 0]
    ELSE IF reason.exc # "" THEN [exc |-> reason.exc, sev |-> 0]
    ELSE IF Contains(Lower(reason.s), kwSevere) \/ Contains(Lower(reason.s), kwCritical)
    THEN [exc |-> "", sev |-> 100]
    ELSE IF StartsWith(Upper(color.s), kwRED) THEN [exc |-> "", sev |-> 90]
    ELSE IF StartsWith(Upper(color.s), kwYELLOW) THEN [exc |-> "", sev |-> 60]
    ELSE [exc |-> "", sev |-> 40]

\* color = (e.get("color") or "").upper(); reason = (e.get("reason") or "").lower()
Severity(e) ==
    SeverityOf(StrOrEmpty(Get(e, "color", None)), StrOrEmpty(Get(e, "reason", None)))

\* 100 * exp(-delta_hours / 24) with delta_hours = max(0, (now - last)/3600)
TLast(now, last_ts) ==
    (ExpNeg(Max(0, now - last_ts), WINDOW_HOURS * SECONDS_IN_HOUR)
        * ((100 * Unit) \div 1000)) \div (ExpScale \div 1000)

NoStructural == [exc |-> "", F_s |-> 0, S_s |-> 0, T_last |-> 0, N_s |-> 0]

\* the four components, from the structural faults and their severities
StructuralOf(structural_faults, sevs, now) ==
    IF FirstExc(sevs) # "" THEN [NoStructural EXCEPT !.exc = FirstExc(sevs)]
    ELSE [exc |-> "",
          F_s |-> Frequency(Len(structural_faults), STRUCT_FAULTS_MAX_PER_DAY),
          S_s |-> Mean([k \in 1..Len(sevs) |-> sevs[k].sev]),
          T_last |-> IF structural_faults # <<>>
                     THEN TLast(now, MaxSeq([k \in 1..Len(structural_faults) |->
                                               TsOf(structural_faults[k])]))
                     ELSE 0,
          N_s |-> 0]

StructuralFrom(picked, now) ==
    IF picked.exc # "" THEN [NoStructural EXCEPT !.exc = picked.exc]
    ELSE StructuralOf(picked.sel, [k \in 1..Len(picked.sel) |-> Severity(picked.sel[k])],
                      now)

ComputeStructuralComponents(evs, now) ==
    StructuralFrom(Selected(evs, now, "structural"), now)

-----------------------------------------------------------------------------
(* _compute_thermal_components *)

GradientScore(e) ==
    IF Contains(Lower(StrOrEmpty(Get(e, "reason", None)).s), kwTooHigh)
         \/ Contains(Lower(StrOrEmpty(Get(e, "reason", None)).s), kwTooLow)
    THEN 90
    ELSE IF Contains(Lower(StrOrEmpty(Get(e, "reason", None)).s), kwHigh)
              \/ Contains(Lower(StrOrEmpty(Get(e, "reason", None)).s), kwLow)
    THEN 75
    ELSE 60

\* xs with x inserted after the elements not greater than it
InsertSorted(xs, x) ==
    SelectSeq(xs, LAMBDA y : y <= x) \o <<x>> \o SelectSeq(xs, LAMBDA y : y > x)

\* sorted(xs)
RECURSIVE SortInts(_)
SortInts(xs) ==
    IF xs = <<>> THEN <<>>
    ELSE InsertSorted(SortInts(SubSeq(xs, 1, Len(xs) - 1)), xs[Len(xs)])

\* 100 * (1 - delta_hours / 24) for delta_hours = max(0, (last - prev)/3600),
\* 0 from 24 hours on; in 1/Unit (Unit is a multiple of 864).
RateOfChange(last_ts, prev_ts) ==
    IF Max(0, last_ts - prev_ts) >= WINDOW_HOURS * SECONDS_IN_HOUR THEN 0
    ELSE Max(0, (WINDOW_HOURS * SECONDS_IN_HOUR - Max(0, last_ts - prev_ts))
                  * ((100 * Unit) \div (WINDOW_HOURS * SECONDS_IN_HOUR)))

\* variant: the rate needs more than two thermal events
RateOfMoreThanTwo(stamps) ==
    IF Len(stamps) > 2 THEN RateOfChange(stamps[Len(stamps)], stamps[Len(stamps) - 1])
    ELSE 0

\* R_t from the sorted timestamps of the thermal events
RateOf(stamps) ==
    IF Len(stamps) >= 2 THEN RateOfChange(stamps[Len(stamps)], stamps[Len(stamps) - 1])
    ELSE 0

NoThermal == [exc |-> "", G_t |-> 0, R_t |-> 0, A_t |-> 0, M_t |-> 0]

ThermalFrom(picked) ==
    IF picked.exc # "" THEN [NoThermal EXCEPT !.exc = picked.exc]
    ELSE [exc |-> "",
          G_t |-> Mean([k \in 1..Len(picked.sel) |-> GradientScore(picked.sel[k])]),
          R_t |-> RateOf(SortInts([k \in 1..Len(picked.sel) |-> TsOf(picked.sel[k])])),
          A_t |-> Frequency(Len(picked.sel), THERMAL_EVENTS_MAX_PER_DAY),
          M_t |-> 0]

ComputeThermalComponents(evs, now) == ThermalFrom(Selected(evs, now, "thermal"))

-----------------------------------------------------------------------------
(* _compute_ssi, _compute_tbi, _compute_performance_score *)

Clamp(lo, x, hi) == Max(lo, Min(hi, x))

\* 100 - (0.35 F_s + 0.35 S_s + 0.20 T_last + 0.10 N_s), in 1/SsiUnit
ComputeSsi(c) ==
    Clamp(0, 100 * SsiUnit - (7 * c.F_s + 7 * c.S_s + 4 * c.T_last + 2 * c.N_s),
          100 * SsiUnit)

\* 100 - (0.40 G_t + 0.25 R_t + 0.20 A_t + 0.15 M_t), in 1/SsiUnit
ComputeTbi(c) ==
    Clamp(0, 100 * SsiUnit - (8 * c.G_t + 5 * c.R_t + 4 * c.A_t + 3 * c.M_t),
          100 * SsiUnit)

\* (ssi * 0.5 + tbi * 0.5) / 25 = (ssi + tbi) / 50: in 1/RawUnit, with
\* RawUnit = 50 * SsiUnit, the sum of the two numerators.
PsRaw(ssi, tbi) == ssi + tbi

\* the thresholds 3.5, 2.5 and 1.5 in 1/RawUnit
Threshold(tenths) == (tenths * RawUnit) \div 10

\* variant: strict thresholds
GradeStrict(ps_raw) ==
    IF ps_raw > Threshold(35) THEN [raw |-> ps_raw, numeric |-> 4, letter |-> "A"]
    ELSE IF ps_raw > Threshold(25) THEN [raw |-> ps_raw, numeric |-> 3, letter |-> "B"]
    ELSE IF ps_raw > Threshold(15) THEN [raw |-> ps_raw, numeric |-> 2, letter |-> "C"]
    ELSE [raw |-> ps_raw, numeric |-> 1, letter |-> "D"]

Grade(ps_raw) ==
    IF ps_raw >= Threshold(35) THEN [raw |-> ps_raw, numeric |-> 4, letter |-> "A"]
    ELSE IF ps_raw >= Threshold(25) THEN [raw |-> ps_raw, numeric |-> 3, letter |-> "B"]
    ELSE IF ps_raw >= Threshold(15) THEN [raw |-> ps_raw, numeric |-> 2, letter |-> "C"]
    ELSE [raw |-> ps_raw, numeric |-> 1, letter |-> "D"]

ComputePerformanceScore(ssi, tbi) == Grade(PsRaw(ssi, tbi))

-----------------------------------------------------------------------------
(* _unix_to_iso: time.gmtime (proleptic Gregorian calendar, ts >= 0) and   *)
(* time.strftime("%Y-%m-%dT%H:%M:%SZ")                                     *)

Pad2(n) == IF n < 10 THEN "0" \o ToString(n) ELSE ToString(n)

Pad4(n) ==
    IF n < 10 THEN "000" \o ToString(n)
    ELSE IF n < 100 THEN "00" \o ToString(n)
    ELSE IF n < 1000 THEN "0" \o ToString(n)
    ELSE ToString(n)

GmTime(ts) ==
    LET days == ts \div 86400
        secs == ts % 86400
        z == days + 719468
        era == z \div 146097
        doe == z - era * 146097
        yoe == (doe - doe \div 1460 + doe \div 36524 - doe \div 146096) \div 365
        doy == doe - (365 * yoe + yoe \div 4 - yoe \div 100)
        mp == (5 * doy + 2) \div 153
        day == doy - (153 * mp + 2) \div 5 + 1
        month == IF mp < 10 THEN mp + 3 ELSE mp - 9
        year == yoe + era * 400 + (IF month <= 2 THEN 1 ELSE 0)
    IN  [tm_year |-> year, tm_mon |-> month, tm_mday |-> day,
         tm_hour |-> secs \div 3600, tm_min |-> (secs % 3600) \div 60,
         tm_sec |-> secs % 60]

UnixToIso(ts) ==
    LET t == GmTime(ts)
    IN  Pad4(t.tm_year) \o "-" \o Pad2(t.tm_mon) \o "-" \o Pad2(t.tm_mday) \o "T"
          \o Pad2(t.tm_hour) \o ":" \o Pad2(t.tm_min) \o ":" \o Pad2(t.tm_sec) \o "Z"

-----------------------------------------------------------------------------
(* compute_performance_for_panel *)

\* the key of sorted(): int(e.get("timestamp", 0))
SortKey(e) == PyInt(Get(e, "timestamp", IntV(0)))

\* sorted(events, key=...): stable, each element placed after the elements
\* of equal key that precede it in the input
\* variant: the input is taken as already sorted
SortKeepsInputOrder(evs) == evs

InsertByKey(sorted, e) ==
    SelectSeq(sorted, LAMBDA y : SortKey(y).n <= SortKey(e).n) \o <<e>>
        \o SelectSeq(sorted, LAMBDA y : SortKey(y).n > SortKey(e).n)

RECURSIVE SortByTimestamp(_)
SortByTimestamp(evs) ==
    IF evs = <<>> THEN <<>>
    ELSE InsertByKey(SortByTimestamp(SubSeq(evs, 1, Len(evs) - 1)), evs[Len(evs)])

\* the first exception of the key function over the input, "" if none
SortExc(evs) == FirstExc([k \in 1..Len(evs) |-> SortKey(evs[k])])

\* variant: the events up to the k-th position of the sorted list
EventsUpToPosition(sorted, k) == SubSeq(sorted, 1, k)

\* events_up_to at the k-th event of the sorted list
EventsUpToAt(sorted, k) == SelectSeq(sorted, LAMBDA e : TsOf(e) <= TsOf(sorted[k]))

SystemEventRecord(evt, now) ==
    [timestamp_unix |-> now,
     timestamp |-> UnixToIso(now),
     color |-> Get(evt, "color", None),
     status |-> Get(evt, "status", None),
     reason |-> Get(evt, "reason", None)]

\* system_events after the classification of evt
AppendSystemEvent(sys, cls, evt, now) ==
    IF cls.domain = "system" THEN Append(sys, SystemEventRecord(evt, now)) ELSE sys

PointRecord(now, ssi, tbi, perf) ==
    [timestamp_unix |-> now,
     timestamp |-> UnixToIso(now),
     ssi |-> ssi,
     tbi |-> tbi,
     performance_numeric |-> perf.numeric,
     performance_letter |-> perf.letter,
     performance_raw |-> perf.raw]

\* variant: a system-domain event is recorded but not scored
AppendPointSkipsSystem(pts, cls, point) ==
    IF cls.domain = "system" THEN pts ELSE Append(pts, point)

\* points after the evaluation at evt
AppendPoint(pts, cls, point) == Append(pts, point)

\* The end of one pass, from the values the pass has computed in order.
PassResult(evt, now, upto, cls, sc, tc, pts, sys) ==
    [exc |-> IF cls.exc # "" THEN cls.exc ELSE IF sc.exc # "" THEN sc.exc ELSE tc.exc,
     now_ts |-> now,
     events_up_to |-> upto,
     system_events |-> IF cls.exc # "" THEN sys ELSE AppendSystemEvent(sys, cls, evt, now),
     struct_comp |-> IF cls.exc = "" /\ sc.exc = "" THEN sc ELSE NoStructural,
     thermal_comp |-> IF cls.exc = "" /\ sc.exc = "" /\ tc.exc = "" THEN tc ELSE NoThermal,
     points |-> IF cls.exc = "" /\ sc.exc = "" /\ tc.exc = ""
                THEN AppendPoint(pts, cls,
                         PointRecord(now, ComputeSsi(sc), ComputeTbi(tc),
                                     ComputePerformanceScore(ComputeSsi(sc), ComputeTbi(tc))))
                ELSE pts]

\* The evaluation at `now` over the events up to it.
Evaluate(evt, now, upto, cls, pts, sys) ==
    PassResult(evt, now, upto, cls, ComputeStructuralComponents(upto, now),
               ComputeThermalComponents(upto, now), pts, sys)

\* One pass of the for loop, at the k-th event of the sorted list, from the
\* lists pts and sys built so far. exc is the exception that ends the pass.
Iteration(sorted, k, pts, sys) ==
    Evaluate(sorted[k], TsOf(sorted[k]), EventsUpToAt(sorted, k),
             ClassifyEvent(sorted[k]), pts, sys)

\* The whole call as a function of the event list.
RECURSIVE RunLoop(_, _, _, _)

AfterPass(sorted, k, it) ==
    IF it.exc # "" THEN [exc |-> it.exc, points |-> <<>>, system_events |-> <<>>]
    ELSE RunLoop(sorted, k + 1, it.points, it.system_events)

RunLoop(sorted, k, pts, sys) ==
    IF k > Len(sorted) THEN [exc |-> "", points |-> pts, system_events |-> sys]
    ELSE AfterPass(sorted, k, Iteration(sorted, k, pts, sys))

ComputePerformanceForPanel(evs) ==
    IF evs = <<>> THEN [exc |-> "", points |-> <<>>, system_events |-> <<>>]
    ELSE IF SortExc(evs) # ""
    THEN [exc |-> SortExc(evs), points |-> <<>>, system_events |-> <<>>]
    ELSE RunLoop(SortByTimestamp(evs), 1, <<>>, <<>>)

-----------------------------------------------------------------------------
(* Inputs *)

MaxEvents == 3
MaxBurst == 6

\* 2024-03-05T14:30:00Z
Base == 19787 * 86400 + 14 * 3600 + 30 * 60

Evt(ts, color, status, prediction, reason) ==
    [timestamp |-> ts, color |-> color, status |-> status,
     prediction |-> prediction, reason |-> reason]

sRED == StrV(<<"R", "E", "D">>)
sYellow == StrV(<<"y", "e", "l", "l", "o", "w">>)
sFault == StrV(<<"f", "a", "u", "l", "t">>)
sWarn == StrV(<<"w", "a", "r", "n">>)
sOffline == StrV(<<"o", "f", "f">>)
sTilt == StrV(<<"t", "i", "l", "t">>)

\* "Temp Tilt": a structural and a thermal keyword, mixed case
S0 == Evt(IntV(Base), sRED, sFault, IntV(1), StrV(<<"T", "e", "m", "p", " ", "T", "i", "l", "t">>))
\* "temperature too high"
T0 == Evt(IntV(Base + 1), sYellow, sFault, IntV(1), StrV(<<"t", "e", "m", "p", "e", "r", "a", "t", "u", "r", "e", " ", "t", "o", "o", " ", "h", "i", "g", "h">>))
\* "Surface LOW", one hour after T0, no color
T1 == Evt(IntV(Base + 3601), Absent, sWarn, IntV(2), StrV(<<"S", "u", "r", "f", "a", "c", "e", " ", "L", "O", "W">>))
\* the window of S24, Y24a and Y24b starts exactly at S0
S24 == Evt(IntV(Base + 86400), sYellow, sFault, IntV(1), StrV(<<"s", "e", "v", "e", "r", "e", " ", "m", "o", "v", "e", "m", "e", "n", "t">>))
Y24a == Evt(IntV(Base + 86400), sRED, sOffline, IntV(-1), sTilt)
Y24b == Evt(IntV(Base + 86400), Absent, sWarn, IntV(-1), None)
\* "ambient", exactly 24 hours after T0 and 24 hours and 1 second after S0
T24 == Evt(IntV(Base + 86401), sRED, sFault, IntV(1), StrV(<<"a", "m", "b", "i", "e", "n", "t">>))
\* "thermal", 30 hours after T0
T30 == Evt(IntV(Base + 108001), None, sWarn, IntV(2), StrV(<<"t", "h", "e", "r", "m", "a", "l">>))
\* every field missing
EAbsent == Evt(Absent, Absent, Absent, Absent, Absent)
\* null prediction
ENullPred == Evt(IntV(Base + 3601), sRED, sFault, None, sTilt)
\* timestamp "abc"
EBadTs == Evt(StrV(<<"a", "b", "c">>), sRED, sFault, IntV(1), sTilt)

EventUniverse ==
    {S0, T0, T1, S24, Y24a, Y24b, T24, T30, EAbsent, ENullPred, EBadTs}

\* many faults in one window
BurstEvents == {S0, T0}

InputLists ==
    UNION {[1..n -> EventUniverse] : n \in 0..MaxEvents}
      \cup UNION {[1..n -> BurstEvents] : n \in (MaxEvents + 1)..MaxBurst}

-----------------------------------------------------------------------------
(* The call, one pass of the loop per step *)

Idle == [exc |-> ""]

Init ==
    /\ events \in InputLists
    /\ pc = "start"
    /\ sorted_events = <<>>
    /\ i = 0
    /\ now_ts = 0
    /\ events_up_to = <<>>
    /\ struct_comp = NoStructural
    /\ thermal_comp = NoThermal
    /\ points = <<>>
    /\ system_events = <<>>
    /\ exc = ""
    /\ arg = Idle
    /\ ret = Idle

\* the assignments of a pass that completes
Completes(it) ==
    /\ now_ts' = it.now_ts
    /\ events_up_to' = it.events_up_to
    /\ system_events' = it.system_events
    /\ struct_comp' = it.struct_comp
    /\ thermal_comp' = it.thermal_comp
    /\ points' = it.points

\* the assignments of a pass that raises
Raises(it) ==
    /\ now_ts' = it.now_ts
    /\ events_up_to' = it.events_up_to
    /\ system_events' = it.system_events
    /\ struct_comp' = it.struct_comp
    /\ thermal_comp' = it.thermal_comp
    /\ exc' = it.exc

\* if not events: return
CallEmpty ==
    /\ pc = "start"
    /\ events = <<>>
    /\ pc' = "done"
    /\ UNCHANGED <<events, sorted_events, i, now_ts, events_up_to, struct_comp,
                   thermal_comp, points, system_events, exc, arg, ret>>

\* sorted_events = sorted(events, key=...)
CallSort ==
    /\ pc = "start"
    /\ events # <<>>
    /\ SortExc(events) = ""
    /\ sorted_events' = SortByTimestamp(events)
    /\ i' = 1
    /\ pc' = "loop"
    /\ UNCHANGED <<events, now_ts, events_up_to, struct_comp, thermal_comp,
                   points, system_events, exc, arg, ret>>

\* the key function raises
CallSortRaises ==
    /\ pc = "start"
    /\ events # <<>>
    /\ SortExc(events) # ""
    /\ exc' = SortExc(events)
    /\ pc' = "raised"
    /\ UNCHANGED <<events, sorted_events, i, now_ts, events_up_to, struct_comp,
                   thermal_comp, points, system_events, arg, ret>>

\* for evt in sorted_events: one pass that completes
LoopBody ==
    /\ pc = "loop"
    /\ i <= Len(sorted_events)
    /\ Iteration(sorted_events, i, points, system_events).exc = ""
    /\ Completes(Iteration(sorted_events, i, points, system_events))
    /\ i' = i + 1
    /\ UNCHANGED <<events, pc, sorted_events, exc, arg, ret>>

\* one pass that raises
LoopRaises ==
    /\ pc = "loop"
    /\ i <= Len(sorted_events)
    /\ Iteration(sorted_events, i, points, system_events).exc # ""
    /\ Raises(Iteration(sorted_events, i, points, system_events))
    /\ pc' = "raised"
    /\ UNCHANGED <<events, sorted_events, i, points, arg, ret>>

\* return {..., "points": points, "system_events": system_events}
Return ==
    /\ pc = "loop"
    /\ i > Len(sorted_events)
    /\ pc' = "done"
    /\ UNCHANGED <<events, sorted_events, i, now_ts, events_up_to, struct_comp,
                   thermal_comp, points, system_events, exc, arg, ret>>

Next == CallEmpty \/ CallSort \/ CallSortRaises \/ LoopBody \/ LoopRaises \/ Return

Spec == Init /\ [][Next]_vars

-----------------------------------------------------------------------------
(* The same call on inputs without the burst lists and with fewer distinct *)
(* events, for the comparison of an input with all its permutations.       *)

OrderUniverse == {S0, T0, S24, Y24a, Y24b, T24, ENullPred, EBadTs}

InitOrder ==
    /\ events \in UNION {[1..n -> OrderUniverse] : n \in 0..MaxEvents}
    /\ pc = "start"
    /\ sorted_events = <<>>
    /\ i = 0
    /\ now_ts = 0
    /\ events_up_to = <<>>
    /\ struct_comp = NoStructural
    /\ thermal_comp = NoThermal
    /\ points = <<>>
    /\ system_events = <<>>
    /\ exc = ""
    /\ arg = Idle
    /\ ret = Idle

SpecOrder == InitOrder /\ [][Next]_vars

-----------------------------------------------------------------------------
(* _classify_event as a function of (prediction, reason) *)

ClassifyPredictions == {IntV(-1), IntV(0), IntV(1), IntV(2), Absent}

ClassifyReasons ==
    {StrV(<<"T", "i", "l", "t">>),
     StrV(<<"S", "T", "R", "U", "C", "T", "U", "R", "A", "L">>),
     StrV(<<"m", "o", "v", "e", "m", "e", "n", "t">>),
     StrV(<<"t", "e", "m", "p">>),
     StrV(<<"T", "h", "e", "r", "m", "a", "l">>),
     StrV(<<"s", "u", "r", "f", "a", "c", "e">>),
     StrV(<<"A", "m", "b", "i", "e", "n", "t">>),
     StrV(<<"T", "e", "m", "p", " ", "T", "i", "l", "t">>),
     StrV(<<"a", "m", "b", "i", "e", "n", "t", " ", "m", "o", "v", "e", "m", "e", "n", "t">>),
     StrV(<<"n", "o", "i", "s", "e">>),
     StrV(<<"t", "i", "l", " ", "t">>),
     StrV(<<>>), None, Absent}

InitClassify ==
    /\ arg \in {Evt(IntV(Base), Absent, Absent, p, r) :
                   p \in ClassifyPredictions, r \in ClassifyReasons}
    /\ ret = Idle
    /\ pc = "call"
    /\ events = <<>>
    /\ sorted_events = <<>>
    /\ i = 0
    /\ now_ts = 0
    /\ events_up_to = <<>>
    /\ struct_comp = NoStructural
    /\ thermal_comp = NoThermal
    /\ points = <<>>
    /\ system_events = <<>>
    /\ exc = ""

ClassifyCall ==
    /\ pc = "call"
    /\ ret' = ClassifyEvent(arg)
    /\ pc' = "returned"
    /\ UNCHANGED <<events, sorted_events, i, now_ts, events_up_to, struct_comp,
                   thermal_comp, points, system_events, exc, arg>>

SpecClassify == InitClassify /\ [][ClassifyCall]_vars

-----------------------------------------------------------------------------
(* _compute_performance_score as a function of (ssi, tbi) *)

\* 0, 5, .., 100 and the values one 1/SsiUnit below them
ScoreGrid ==
    {5 * k * SsiUnit - j : k \in 0..(100 \div 5), j \in {0, 1}} \ {-1}

InitScore ==
    /\ arg \in [ssi : ScoreGrid, tbi : ScoreGrid]
    /\ ret = Idle
    /\ pc = "call"
    /\ events = <<>>
    /\ sorted_events = <<>>
    /\ i = 0
    /\ now_ts = 0
    /\ events_up_to = <<>>
    /\ struct_comp = NoStructural
    /\ thermal_comp = NoThermal
    /\ points = <<>>
    /\ system_events = <<>>
    /\ exc = ""

ScoreCall ==
    /\ pc = "call"
    /\ ret' = ComputePerformanceScore(arg.ssi, arg.tbi)
    /\ pc' = "returned"
    /\ UNCHANGED <<events, sorted_events, i, now_ts, events_up_to, struct_comp,
                   thermal_comp, points, system_events, exc, arg>>

SpecScore == InitScore /\ [][ScoreCall]_vars

-----------------------------------------------------------------------------
(* Properties *)

Evaluated == pc \in {"loop", "done"} /\ i > 1

PredictionOf(e) == PyInt(Get(e, "prediction", IntV(0))).n

IsAnomaly(e, kind) ==
    /\ ClassifyEvent(e).exc = ""
    /\ ClassifyEvent(e).domain = "facade"
    /\ ClassifyEvent(e).kind = kind
    /\ PredictionOf(e) \in (IF kind = "structural" THEN {1} ELSE {1, 2})

\* positions of the sorted list whose event is an anomaly of `kind` with
\* now_ts - 86400 <= timestamp <= now_ts
InWindow(kind) ==
    {k \in 1..Len(sorted_events) :
        /\ now_ts - 86400 <= TsOf(sorted_events[k])
        /\ TsOf(sorted_events[k]) <= now_ts
        /\ IsAnomaly(sorted_events[k], kind)}

\* C1: a call that returns has one scored point per input event and one
\* system_events entry per input event whose prediction is -1; inside the
\* loop there is one point per event already passed.
PointPerEvent ==
    /\ pc = "done" =>
          /\ Len(points) = Len(events)
          /\ Len(system_events) =
                Cardinality({k \in 1..Len(events) : PredictionOf(events[k]) = -1})
    /\ pc = "loop" => Len(points) = i - 1

PointPerEventWitness ==
    /\ pc = "done"
    /\ Len(events) >= 3
    /\ Len(system_events) >= 1
    /\ Len(system_events) < Len(events)
    /\ \E a, b \in 1..Len(points) :
          a # b /\ points[a].timestamp_unix = points[b].timestamp_unix

Reorderings(evs) ==
    {[k \in 1..Len(evs) |-> evs[f[k]]] :
        f \in {g \in [1..Len(evs) -> 1..Len(evs)] :
                  \A a, b \in 1..Len(evs) : a # b => g[a] # g[b]}}

SameOutput(r) == r.exc = "" /\ r.points = points /\ r.system_events = system_events

\* C2 as stated: every permutation of the input gives the same points and
\* the same system_events, element by element.
OrderInvariant ==
    pc = "done" =>
        \A perm \in Reorderings(events) : SameOutput(ComputePerformanceForPanel(perm))

Occurrences(xs, x) == Cardinality({k \in 1..Len(xs) : xs[k] = x})

SameUpToTies(xs, ys) ==
    /\ Len(xs) = Len(ys)
    /\ \A k \in 1..Len(xs) : xs[k].timestamp_unix = ys[k].timestamp_unix
    /\ \A k \in 1..Len(xs) : Occurrences(xs, xs[k]) = Occurrences(ys, xs[k])

SameOutputUpToTies(r) ==
    r.exc = "" /\ r.points = points /\ SameUpToTies(r.system_events, system_events)

\* C2 amended: every permutation of the input gives the same points,
\* element by element, and the same system_events records in ascending
\* timestamp order; records that share a timestamp keep their input order,
\* so a permutation may exchange them.
OrderInvariantUpToTies ==
    pc = "done" =>
        \A perm \in Reorderings(events) :
            SameOutputUpToTies(ComputePerformanceForPanel(perm))

OrderInvariantWitness ==
    /\ pc = "done"
    /\ Len(events) >= 3
    /\ events # sorted_events
    /\ \E a, b \in 1..Len(events) :
          /\ TsOf(events[a]) = TsOf(events[b])
          /\ events[a] # events[b]
    /\ \E perm \in Reorderings(events) :
          ComputePerformanceForPanel(perm).system_events # system_events

\* C3: the call never raises, whatever fields are missing, null or not
\* numbers, and still scores every event.
NeverRaises ==
    /\ pc # "raised"
    /\ pc = "done" => Len(points) = Len(events)

InRange(x, hi) == 0 <= x /\ x <= hi

\* C4: every sub-indicator lies in [0,100] with N_s = M_t = 0, and every
\* scored point has ssi and tbi in [0,100] and performance_raw in [0,4].
ScoresInRange ==
    /\ InRange(struct_comp.F_s, 100 * Unit)
    /\ InRange(struct_comp.S_s, 100 * Unit)
    /\ InRange(struct_comp.T_last, 100 * Unit)
    /\ struct_comp.N_s = 0
    /\ InRange(thermal_comp.G_t, 100 * Unit)
    /\ InRange(thermal_comp.R_t, 100 * Unit)
    /\ InRange(thermal_comp.A_t, 100 * Unit)
    /\ thermal_comp.M_t = 0
    /\ \A k \in 1..Len(points) :
          /\ InRange(points[k].ssi, 100 * SsiUnit)
          /\ InRange(points[k].tbi, 100 * SsiUnit)
          /\ InRange(points[k].performance_raw, 4 * RawUnit)

ScoresInRangeWitness ==
    /\ Evaluated
    /\ Cardinality(InWindow("structural")) > STRUCT_FAULTS_MAX_PER_DAY
    /\ struct_comp.F_s = 100 * Unit
    /\ struct_comp.T_last = 100 * Unit
    /\ points[Len(points)].ssi < 100 * SsiUnit

\* C5: every scored point and every system-event record has exactly the
\* documented keys, the ISO string being under timestamp_iso.
TimestampIsoKey ==
    /\ \A k \in 1..Len(points) :
          /\ DOMAIN points[k] =
                {"timestamp_unix", "timestamp_iso", "ssi", "tbi", "performance_raw",
                 "performance_numeric", "performance_letter"}
          /\ points[k]["timestamp_iso"] = UnixToIso(points[k].timestamp_unix)
    /\ \A k \in 1..Len(system_events) :
          /\ DOMAIN system_events[k] =
                {"timestamp_unix", "timestamp_iso", "color", "status", "reason"}
          /\ system_events[k]["timestamp_iso"] = UnixToIso(system_events[k].timestamp_unix)

InWindowOnly ==
    SelectSeq(sorted_events,
              LAMBDA e : now_ts - 86400 <= TsOf(e) /\ TsOf(e) <= now_ts)

\* C6: at each evaluation the sub-indicators count exactly the anomalies
\* with now - 86400 <= timestamp <= now, and are the same over the events up
\* to now, over the whole sorted list (later events included) and over the
\* events of the window alone.
WindowBounds ==
    Evaluated =>
        /\ struct_comp.F_s =
              Min(100 * Unit, 20 * Unit * Cardinality(InWindow("structural")))
        /\ thermal_comp.A_t =
              Min(100 * Unit, 20 * Unit * Cardinality(InWindow("thermal")))
        /\ struct_comp = ComputeStructuralComponents(sorted_events, now_ts)
        /\ thermal_comp = ComputeThermalComponents(sorted_events, now_ts)
        /\ struct_comp = ComputeStructuralComponents(InWindowOnly, now_ts)
        /\ thermal_comp = ComputeThermalComponents(InWindowOnly, now_ts)

WindowBoundsWitness ==
    /\ Evaluated
    /\ \E k \in InWindow("thermal") : TsOf(sorted_events[k]) = now_ts - 86400
    /\ \E k \in 1..Len(sorted_events) :
          /\ TsOf(sorted_events[k]) = now_ts - 86401
          /\ IsAnomaly(sorted_events[k], "structural")
    /\ struct_comp.F_s = 0
    /\ thermal_comp.A_t = 40 * Unit

LoweredReason == Lower(StrOrEmpty(Get(arg, "reason", None)).s)

StructuralWord ==
    \E w \in {kwTilt, kwStructural, kwMovement} : Contains(LoweredReason, w)

ThermalWord ==
    \E w \in {kwTemp, kwThermal, kwSurface, kwAmbient} : Contains(LoweredReason, w)

TwiceSum == 2 * (arg.ssi + arg.tbi)

\* C8: performance_raw is (ssi + tbi) / 50 and the grade follows the
\* inclusive lower bounds 3.5, 2.5 and 1.5 (ssi + tbi >= 175, 125, 75);
\* 70/70 grades (B,3) and 60/60 grades (C,2).
GradeThresholds ==
    pc = "returned" =>
        /\ ret.raw = (arg.ssi + arg.tbi) * (RawUnit \div (50 * SsiUnit))
        /\ TwiceSum >= 350 * SsiUnit => ret.letter = "A"
        /\ (TwiceSum < 350 * SsiUnit /\ TwiceSum >= 250 * SsiUnit) => ret.letter = "B"
        /\ (TwiceSum < 250 * SsiUnit /\ TwiceSum >= 150 * SsiUnit) => ret.letter = "C"
        /\ TwiceSum < 150 * SsiUnit => ret.letter = "D"
        /\ <<ret.letter, ret.numeric>> \in {<<"A", 4>>, <<"B", 3>>, <<"C", 2>>, <<"D", 1>>}
        /\ (arg.ssi = 70 * SsiUnit /\ arg.tbi = 70 * SsiUnit) =>
              ret.letter = "B" /\ ret.raw * 10 = 28 * RawUnit
        /\ (arg.ssi = 60 * SsiUnit /\ arg.tbi = 60 * SsiUnit) =>
              ret.letter = "C" /\ ret.raw * 10 = 24 * RawUnit

GradeThresholdsWitness ==
    /\ pc = "returned"
    /\ TwiceSum = 250 * SsiUnit
    /\ arg.ssi # arg.tbi
    /\ ret.letter = "B"
    /\ ret.numeric = 3

\* the position in S of a latest event
Latest(S) ==
    CHOOSE k \in S : \A m \in S : TsOf(sorted_events[m]) <= TsOf(sorted_events[k])

\* the gap between the two most recent events of the positions S
GapIn(S) ==
    TsOf(sorted_events[Latest(S)]) - TsOf(sorted_events[Latest(S \ {Latest(S)})])

ThermalGap == GapIn(InWindow("thermal"))

RateForGap(gap) ==
    /\ thermal_comp.R_t * 24 = (86400 - gap) * (Unit \div 36)
    /\ gap = 3600 => thermal_comp.R_t * 24 = 100 * Unit * 23
    /\ gap = 0 => thermal_comp.R_t = 100 * Unit
    /\ gap = 86400 => thermal_comp.R_t = 0

RateForWindow(S) ==
    /\ Cardinality(S) < 2 => thermal_comp.R_t = 0
    /\ Cardinality(S) >= 2 => RateForGap(GapIn(S))

\* two thermal anomalies 30 hours apart, the later one at now_ts
ThirtyHoursApart ==
    \E a, b \in 1..Len(events_up_to) :
        /\ TsOf(events_up_to[b]) = now_ts
        /\ TsOf(events_up_to[b]) - TsOf(events_up_to[a]) = 30 * 3600
        /\ IsAnomaly(events_up_to[a], "thermal")
        /\ IsAnomaly(events_up_to[b], "thermal")

\* positions of the thermal anomalies among the events up to now
ThermalUpToNow ==
    {k \in 1..Len(events_up_to) : IsAnomaly(events_up_to[k], "thermal")}

\* C9: R_t is 0 with fewer than two thermal anomalies in the window, and
\* otherwise 100 * (1 - d/86400) for the gap d between the two most recent
\* ones, whatever the evaluation time: 100 * 23/24 one hour apart, 100 at
\* the same second, 0 at 24 hours, and 0 at the later of two thermal
\* anomalies 30 hours apart with no other thermal anomaly up to then.
RateOfChangeRule ==
    Evaluated =>
        /\ RateForWindow(InWindow("thermal"))
        /\ (ThirtyHoursApart /\ Cardinality(ThermalUpToNow) = 2) => thermal_comp.R_t = 0

RateOfChangeWitness ==
    /\ Evaluated
    /\ Cardinality(InWindow("thermal")) = 2
    /\ ThermalGap = 3600
    /\ \A k \in InWindow("thermal") : TsOf(sorted_events[k]) < now_ts - 3600
    /\ thermal_comp.R_t * 24 = 100 * Unit * 23

\* C10: scored points with equal timestamps have equal ssi, tbi,
\* performance_raw, performance_numeric and performance_letter.
SameSecondSameScore ==
    \A a, b \in 1..Len(points) :
        points[a].timestamp_unix = points[b].timestamp_unix =>
            /\ points[a].ssi = points[b].ssi
            /\ points[a].tbi = points[b].tbi
            /\ points[a].performance_raw = points[b].performance_raw
            /\ points[a].performance_numeric = points[b].performance_numeric
            /\ points[a].performance_letter = points[b].performance_letter

SameSecondSameScoreWitness ==
    /\ pc = "done"
    /\ Len(points) = 2
    /\ points[1].timestamp_unix = points[2].timestamp_unix
    /\ ClassifyEvent(sorted_events[1]).domain = "system"
    /\ IsAnomaly(sorted_events[2], "structural")
    /\ points[1].ssi < 100 * SsiUnit

====
